---- MODULE Spec2Model ----
(***************************************************************************)
(* Radicale protocol engine: Application.__call__ (path resolution, rights *)
(* check, method dispatch) and the handlers put / delete / mkcalendar /    *)
(* get of radicale/__init__.py with the helpers of radicale/xmlutils.py.   *)
(*                                                                         *)
(* Several workers serve requests against one shared store.  A worker's    *)
(* request advances one storage call at a time (every call of the storage  *)
(* module is one atomic step); the steps of different workers interleave.  *)
(***************************************************************************)
EXTENDS Integers, Sequences, FiniteSets, TLC

\* ------------------------------------------------------------------ bounds
MaxRequests == 2
MaxChain == 4
MaxUri == 4
MaxBody == 2
MaxTags == 2
MaxResources == 2
MaxEntries == 2
MaxTime == 4
MaxStart == 2
MaxActions == 3
MaxOccurrences == 6

\* ------------------------------------------------------- program constants
OK == 200
CREATED == 201
NO_CONTENT == 204
UNAUTHORIZED == 401
CONFLICT == 409
GONE == 410
PRECONDITION_FAILED == 412
NOT_IMPLEMENTED == 501
\* an exception escaping the handler: the WSGI server answers 500
SERVER_ERROR == 500

\* ------------------------------------------------------------ value spaces
None == "None"
NoHeader == "NoHeader"
EmptyHeader == ""

Workers == {"w1", "w2"}
\* a path is the sequence of its segments: /alice/cal is <<"alice", "cal">>
CalPaths == {<<"alice", "cal">>}
Names == {"a", "b"}
Bodies == {"B1", "B2"}
TzVals == {"TZ1"}
PropNames == {"D:displayname"}
PropVals == {"n1"}
Users == {"alice"}
Owners == {"alice", "bob"}
Depths == {NoHeader, "0", "1", "infinity", "Infinity"}

\* ------------------------------------------------------------------ storage
\* ETag of an item: derived from its content, equal iff the contents are equal.
Etag(body) == "etag-" \o body

\* owner of a collection: the first segment of its path
Owner(cal) == cal[1]

EmptyItems == [n \in Names |-> None]

EmptyProps == [k \in PropNames |-> None]

NoCalendar ==
    [exists |-> FALSE, items |-> EmptyItems, props |-> EmptyProps, tz |-> None]

EmptyCalendar ==
    [exists |-> TRUE, items |-> EmptyItems, props |-> EmptyProps, tz |-> None]

\* ETag of a collection: derived from its whole serialized text.
CalEtag(c) ==
    "ctag-" \o c.items["a"] \o "-" \o c.items["b"] \o "-" \o c.tz

GetItem(c, name) == IF c.exists /\ name # None THEN c.items[name] ELSE None

ItemNames(c) == {n \in Names : c.exists /\ c.items[n] # None}

PutItem(c, name, body) ==
    [c EXCEPT !.exists = TRUE, !.items = [@ EXCEPT ![name] = body]]

\* Calendar.replace(name, text) and Calendar.append(name, text)
CalendarReplace(c, name, body) == PutItem(c, name, body)

CalendarAppend(c, name, body) == PutItem(c, name, body)

RemoveItem(c, name) ==
    IF name \in Names THEN [c EXCEPT !.items = [@ EXCEPT ![name] = None]] ELSE c

\* Calendar.replace('', text): the embedded timezone component is replaced
ReplaceTimezone(c, tz) == [c EXCEPT !.exists = TRUE, !.tz = tz]

\* the write-back of the scoped property store (``with calendar.props``)
WriteProps(c, props) == [c EXCEPT !.props = props]

ResourceExists(st, path) == path \in CalPaths /\ st[path].exists

UriIsCollection(st, path) == path \in CalPaths /\ st[path].exists

CreateCalendar(st, path) == [st EXCEPT ![path] = EmptyCalendar]

DeleteCollectionByPath(st, path) ==
    IF path \in CalPaths THEN [st EXCEPT ![path] = NoCalendar] ELSE st

\* a resource of the resolved chain
CalendarResource(path) ==
    [kind |-> "calendar", path |-> path, name |-> None, owner |-> Owner(path)]

ItemResource(path, name) ==
    [kind |-> "item", path |-> path, name |-> name, owner |-> None]

NameOrder == <<"a", "b">>

RECURSIVE ItemChain(_, _, _)
ItemChain(c, path, i) ==
    IF i > Len(NameOrder) THEN <<>>
    ELSE (IF c.items[NameOrder[i]] # None
             THEN <<ItemResource(path, NameOrder[i])>> ELSE <<>>)
         \o ItemChain(c, path, i + 1)

\* the calendar a path lies in: the path itself or its parent
CalendarOf(path) ==
    IF path \in CalPaths THEN path ELSE SubSeq(path, 1, Len(path) - 1)

\* DavItem.from_path(path, depth): the ordered chain, a collection before its
\* children; a path inside a calendar resolves to that calendar
FromPath(st, path, depth) ==
    LET cal == CalendarOf(path) IN
    IF cal \notin CalPaths \/ ~st[cal].exists THEN <<>>
    ELSE IF path # cal \/ depth = "0" THEN <<CalendarResource(cal)>>
    ELSE <<CalendarResource(cal)>> \o ItemChain(st[cal], cal, 1)

\* acl.has_right(owner, user, password): the backend's policy
HasRight(owner, user) == user = owner

\* ------------------------------------------------------------------- state
VARIABLES
    store,      \* the storage module's state: one calendar record per path
    aclOn,      \* self.acl: whether a rights backend is configured
    pc,         \* each worker's position in the request it serves
    req,        \* each worker's request (environ and content)
    cals,       \* the handler's argument ``calendars``
    resolved,   \* history: the chain from_path returned to __call__
    item,       \* the handler's local ``item``: the content get_item returned
    seen,       \* history: calendar.etag as the handler read it
    resp,       \* each worker's response
    trace,      \* history: the storage calls the handler made in this request
    pre,        \* history: the target's ETag right before this request's write
    post,       \* history: the target's content right after this request's write
    lastWrite,  \* history: the last write applied to each item
    saw,        \* history: lastWrite as it was when GET read the item
    served,     \* number of requests received so far
    chainIn,    \* rights check alone: the resolved chain
    grants,     \* rights check alone: the backend's answer per owner
    authOut,    \* rights check alone: the result of the walk
    arg,        \* one function alone: the arguments it is called with
    ret         \* one function alone: what the call returned

vars == <<store, aclOn, pc, req, resolved, cals, item, seen, resp, trace,
          pre, post, lastWrite, saw, served, chainIn, grants, authOut,
          arg, ret>>

authVars == <<chainIn, grants, authOut>>

unitVars == <<arg, ret>>

\* ---------------------------------------------------------------- requests
NoMk == [has |-> FALSE, tz |-> None, dn |-> None]

MkContents ==
    {NoMk} \cup [has : {TRUE}, tz : TzVals \cup {None}, dn : PropVals]

NoRequest ==
    [method |-> None, path |-> <<>>, ifm |-> NoHeader, depth |-> NoHeader,
     content |-> None, mk |-> NoMk, auth |-> NoHeader]

NoBody == [kind |-> "none"]

NoResponse ==
    [status |-> 0, etag |-> None, challenge |-> None, body |-> NoBody]

ItemPaths == {c \o <<n>> : c \in CalPaths, n \in Names}

AuthVals == IF aclOn THEN {NoHeader} \cup Users ELSE {NoHeader}

ItemEtags == {Etag(b) : b \in Bodies}

PutRequests ==
    [method : {"PUT"}, path : ItemPaths,
     ifm : {NoHeader, EmptyHeader} \cup ItemEtags, depth : {NoHeader},
     content : Bodies, mk : {NoMk}, auth : AuthVals]

GetRequests ==
    [method : {"GET"}, path : ItemPaths \cup CalPaths,
     ifm : {NoHeader}, depth : {NoHeader},
     content : {None}, mk : {NoMk}, auth : AuthVals]

DeleteItemRequests ==
    [method : {"DELETE"}, path : ItemPaths,
     ifm : {NoHeader, EmptyHeader} \cup ItemEtags, depth : {NoHeader},
     content : {None}, mk : {NoMk}, auth : AuthVals]

DeleteCollectionRequests ==
    [method : {"DELETE"}, path : CalPaths,
     ifm : {NoHeader, EmptyHeader, Etag("B1")}
             \cup {CalEtag(store[c]) : c \in CalPaths},
     depth : Depths,
     content : {None}, mk : {NoMk}, auth : AuthVals]

MkcalendarRequests ==
    [method : {"MKCALENDAR"}, path : CalPaths,
     ifm : {NoHeader}, depth : {NoHeader},
     content : {None}, mk : MkContents, auth : AuthVals]

\* MKCOL, a token that names no attribute of the application (FOO) and a
\* token that names an attribute that is no handler (DECODE: self.decode)
OtherRequests ==
    [method : {"MKCOL", "FOO", "DECODE"}, path : CalPaths,
     ifm : {NoHeader}, depth : {NoHeader},
     content : {None}, mk : {NoMk}, auth : AuthVals]

Requests ==
    PutRequests \cup GetRequests \cup DeleteItemRequests
        \cup DeleteCollectionRequests \cup MkcalendarRequests
        \cup OtherRequests

\* ------------------------------------------------------------ rights check
StartRights == [last_allowed |-> FALSE, calendars |-> <<>>, calls |-> <<>>]

\* Mutant of RightsStep: a refused calendar leaves last_allowed as it was.
RightsStep_KeepsLast(acc, r, allowed) ==
    IF r.kind # "calendar"
    THEN IF acc.last_allowed
         THEN [acc EXCEPT !.calendars = Append(@, r)]
         ELSE acc
    ELSE IF r.owner \in allowed
         THEN [last_allowed |-> TRUE,
               calendars |-> Append(acc.calendars, r),
               calls |-> Append(acc.calls, r.owner)]
         ELSE [acc EXCEPT !.calls = Append(@, r.owner)]

\* one iteration of the loop over the resolved chain; ``allowed`` is the set
\* of owners for which the backend answers true to this request's credentials
RightsStep(acc, r, allowed) ==
    IF r.kind # "calendar"
    THEN IF acc.last_allowed
         THEN [acc EXCEPT !.calendars = Append(@, r)]
         ELSE acc
    ELSE IF r.owner \in allowed
         THEN [last_allowed |-> TRUE,
               calendars |-> Append(acc.calendars, r),
               calls |-> Append(acc.calls, r.owner)]
         ELSE [last_allowed |-> FALSE,
               calendars |-> acc.calendars,
               calls |-> Append(acc.calls, r.owner)]

RECURSIVE CheckRights(_, _, _, _)
CheckRights(chain, allowed, i, acc) ==
    IF i > Len(chain) THEN acc
    ELSE CheckRights(chain, allowed, i + 1, RightsStep(acc, chain[i], allowed))

\* ------------------------------------------------------------------ helpers
\* xmlutils.name_from_path(path, calendar)
NameFromPath(path, calendarPath) ==
    IF Len(path) - Len(calendarPath) # 0 THEN path[Len(path)] ELSE None

\* environ.get("HTTP_IF_MATCH", default)
IfMatchOr(ifm, default) == IF ifm = NoHeader THEN default ELSE ifm

\* environ.get("HTTP_DEPTH", default)
DepthOr(depth, default) == IF depth = NoHeader THEN default ELSE depth

Lower(depth) == IF depth = "Infinity" THEN "infinity" ELSE depth

\* Mutant of PutAllowed: an existing item is overwritten whatever If-Match says.
PutAllowed_IgnoreEtag(it, ifm) ==
    \/ it = None /\ ifm \in {NoHeader, EmptyHeader}
    \/ it # None

\* the test of Application.put; ``it`` is the content of the item or None
PutAllowed(it, ifm) ==
    \/ it = None /\ ifm \in {NoHeader, EmptyHeader}
    \/ it # None /\ IfMatchOr(ifm, Etag(it)) = Etag(it)

\* Mutant of DeleteItemAllowed: an existing item is deleted whatever If-Match
\* says.
DeleteItemAllowed_IgnoreEtag(it, ifm) == it # None

\* the first test of Application.delete
DeleteItemAllowed(it, ifm) ==
    it # None /\ IfMatchOr(ifm, Etag(it)) = Etag(it)

\* Mutant of DeleteCollectionAddressed: the Depth header is not looked at.
DeleteCollectionAddressed_AnyDepth(st, path, depth) == UriIsCollection(st, path)

\* the second test of Application.delete: the whole collection is addressed
DeleteCollectionAddressed(st, path, depth) ==
    UriIsCollection(st, path) /\ Lower(DepthOr(depth, "infinity")) = "infinity"

DeleteCollectionAllowed(c, ifm) == IfMatchOr(ifm, CalEtag(c)) = CalEtag(c)

\* Mutant of XmlPut: an existing item is appended to, which leaves it as it was.
XmlPut_AppendOnly(c, path, calendarPath, content) ==
    LET name == NameFromPath(path, calendarPath) IN
    IF name \in ItemNames(c) THEN c ELSE CalendarAppend(c, name, content)

\* xmlutils.put(path, ical_request, calendar)
XmlPut(c, path, calendarPath, content) ==
    LET name == NameFromPath(path, calendarPath) IN
    IF name \in ItemNames(c)
    THEN CalendarReplace(c, name, content)
    ELSE CalendarAppend(c, name, content)

\* xmlutils.delete(path, calendar): the storage part
XmlDelete(c, path, calendarPath) ==
    RemoveItem(c, NameFromPath(path, calendarPath))

\* xmlutils.delete(path, calendar): the answer
XmlDeleteAnswer(path) == [kind |-> "multistatus", href |-> path, status |-> OK]

PreconditionFailedResponse(ns, name) ==
    [kind |-> "error", ns |-> ns, precondition |-> name]

Response(status, etag, body) ==
    [status |-> status, etag |-> etag, challenge |-> None, body |-> body]

Challenge == "Basic realm=\"Radicale Server - Password Required\""

Unauthorized ==
    [status |-> UNAUTHORIZED, etag |-> None, challenge |-> Challenge,
     body |-> NoBody]

NoWrites == [p \in ItemPaths |-> None]

\* lastWrite after every item of the calendar at ``cal`` was dropped
Dropped(lw, cal) ==
    [p \in ItemPaths |-> IF CalendarOf(p) = cal THEN None ELSE lw[p]]

\* ------------------------------------------------------------------ actions
\* the calendar is not there yet, or it holds the item a
InitStores ==
    {[p \in CalPaths |-> NoCalendar],
     [p \in CalPaths |->
        [EmptyCalendar EXCEPT !.items = [EmptyItems EXCEPT !["a"] = "B1"]]]}

Init ==
    /\ store \in InitStores
    /\ aclOn \in BOOLEAN
    /\ pc = [w \in Workers |-> "idle"]
    /\ req = [w \in Workers |-> NoRequest]
    /\ cals = [w \in Workers |-> <<>>]
    /\ item = [w \in Workers |-> None]
    /\ seen = [w \in Workers |-> None]
    /\ resolved = [w \in Workers |-> <<>>]
    /\ resp = [w \in Workers |-> NoResponse]
    /\ trace = [w \in Workers |-> <<>>]
    /\ pre = [w \in Workers |-> None]
    /\ post = [w \in Workers |-> None]
    /\ lastWrite = NoWrites
    /\ saw = [w \in Workers |-> None]
    /\ served = 0
    /\ chainIn = <<>>
    /\ grants = {}
    /\ authOut = [done |-> FALSE, result |-> StartRights]
    /\ arg = None
    /\ ret = None

Respond(w, r) ==
    /\ pc' = [pc EXCEPT ![w] = "done"]
    /\ resp' = [resp EXCEPT ![w] = r]

Goto(w, label) ==
    /\ pc' = [pc EXCEPT ![w] = label]
    /\ UNCHANGED resp

Called(w, call) == trace' = [trace EXCEPT ![w] = Append(@, call)]

\* an exception escapes the handler
Raise(w) == Respond(w, Response(SERVER_ERROR, None, NoBody))

\* a request arrives
Receive(w) ==
    /\ pc[w] = "idle"
    /\ served < MaxRequests
    /\ \E r \in Requests : req' = [req EXCEPT ![w] = r]
    /\ served' = served + 1
    /\ pc' = [pc EXCEPT ![w] = "call"]
    /\ UNCHANGED <<store, aclOn, resolved, cals, item, seen, resp, trace, pre, post,
                   lastWrite, saw, authVars, unitVars>>

\* getattr(self, environ["REQUEST_METHOD"].lower()): the attribute of that
\* name, None when the application has no such attribute (AttributeError)
Handler(method) ==
    CASE method = "PUT" -> "put"
      [] method = "DELETE" -> "delete"
      [] method = "MKCALENDAR" -> "mkcalendar"
      [] method = "GET" -> "get"
      [] method = "MKCOL" -> "mkcol"
      [] method = "DECODE" -> "decode"
      [] OTHER -> None

\* Mutant of Call: with every resource refused, the handler still runs, on the
\* resolved chain.
Call_NoGate(w) ==
    /\ pc[w] = "call"
    /\ LET items == FromPath(store, req[w].path, DepthOr(req[w].depth, "0"))
       IN  /\ resolved' = [resolved EXCEPT ![w] = items]
           /\ IF Handler(req[w].method) = None
              THEN UNCHANGED cals /\ Raise(w)
              ELSE /\ cals' = [cals EXCEPT ![w] = items]
                   /\ Goto(w, Handler(req[w].method))
    /\ UNCHANGED <<store, aclOn, req, item, seen, trace, pre, post, lastWrite,
                   saw, served, authVars, unitVars>>

\* Application.__call__: resolve the chain, check the rights, dispatch
Call(w) ==
    /\ pc[w] = "call"
    /\ LET items == FromPath(store, req[w].path, DepthOr(req[w].depth, "0"))
           user == IF req[w].auth = NoHeader THEN None ELSE req[w].auth
           allowed == {o \in Owners : HasRight(o, user)}
           calendars == CheckRights(items, allowed, 1, StartRights).calendars
           handler == Handler(req[w].method)
       IN  /\ resolved' = [resolved EXCEPT ![w] = items]
           /\ IF handler = None
              THEN UNCHANGED cals /\ Raise(w)
              ELSE IF items = <<>> \/ ~aclOn
              THEN cals' = [cals EXCEPT ![w] = items] /\ Goto(w, handler)
              ELSE IF calendars # <<>>
                   THEN /\ cals' = [cals EXCEPT ![w] = calendars]
                        /\ Goto(w, handler)
                   ELSE UNCHANGED cals /\ Respond(w, Unauthorized)
    /\ UNCHANGED <<store, aclOn, req, item, seen, trace, pre, post, lastWrite, saw,
                   served, authVars, unitVars>>

\* Mutant of PutCheck: the item is written before the precondition is tested.
PutCheck_WriteFirst(w) ==
    /\ pc[w] = "put"
    /\ cals[w] # <<>>
    /\ LET cal == cals[w][1].path
           it == GetItem(store[cal], NameFromPath(req[w].path, cal))
       IN  /\ item' = [item EXCEPT ![w] = it]
           /\ store' = [store EXCEPT ![cal] =
                          XmlPut(@, req[w].path, cal, req[w].content)]
           /\ trace' = [trace EXCEPT ![w] = @ \o <<"get_item", "put">>]
           /\ IF PutAllowed(it, req[w].ifm)
              THEN Goto(w, "put_etag")
              ELSE Respond(w, Response(PRECONDITION_FAILED, None, NoBody))
    /\ UNCHANGED <<aclOn, req, resolved, cals, seen, pre, post, lastWrite,
                   saw, served, authVars, unitVars>>

\* Application.put: calendars[0], get_item and the precondition test
PutCheck(w) ==
    /\ pc[w] = "put"
    /\ IF cals[w] = <<>>
       THEN Raise(w) /\ UNCHANGED <<item, trace>>
       ELSE LET cal == cals[w][1].path
                it == GetItem(store[cal], NameFromPath(req[w].path, cal))
            IN  /\ item' = [item EXCEPT ![w] = it]
                /\ Called(w, "get_item")
                /\ IF PutAllowed(it, req[w].ifm)
                   THEN Goto(w, "put_write")
                   ELSE Respond(w, Response(PRECONDITION_FAILED, None, NoBody))
    /\ UNCHANGED <<store, aclOn, req, resolved, cals, seen, pre, post,
                   lastWrite, saw, served, authVars, unitVars>>

\* Application.put: xmlutils.put
PutWrite(w) ==
    /\ pc[w] = "put_write"
    /\ LET cal == cals[w][1].path
           name == NameFromPath(req[w].path, cal)
           c == XmlPut(store[cal], req[w].path, cal, req[w].content)
       IN  /\ store' = [store EXCEPT ![cal] = c]
           /\ pre' = [pre EXCEPT ![w] =
                        IF GetItem(store[cal], name) = None THEN None
                        ELSE Etag(GetItem(store[cal], name))]
           /\ post' = [post EXCEPT ![w] = GetItem(c, name)]
           /\ lastWrite' = [lastWrite EXCEPT ![req[w].path] = req[w].content]
    /\ Called(w, "put")
    /\ Goto(w, "put_etag")
    /\ UNCHANGED <<aclOn, req, resolved, cals, item, seen, saw, served, authVars, unitVars>>

\* Application.put: the ETag header from calendar.get_item(item_name).etag
PutEtag(w) ==
    /\ pc[w] = "put_etag"
    /\ LET cal == cals[w][1].path
           it == GetItem(store[cal], NameFromPath(req[w].path, cal))
       IN  IF it = None
           THEN Raise(w)
           ELSE Respond(w, Response(CREATED, Etag(it), NoBody))
    /\ Called(w, "get_item")
    /\ UNCHANGED <<store, aclOn, req, resolved, cals, item, seen, pre, post, lastWrite, saw,
                   served, authVars, unitVars>>

\* Application.get
Get(w) ==
    /\ pc[w] = "get"
    /\ IF cals[w] = <<>>
       THEN Raise(w) /\ UNCHANGED <<item, trace, saw>>
       ELSE LET cal == cals[w][1].path
                c == store[cal]
                name == NameFromPath(req[w].path, cal)
                it == GetItem(c, name)
            IN  /\ item' = [item EXCEPT ![w] = it]
                /\ Called(w, IF name # None THEN "get_item" ELSE "text")
                /\ saw' = [saw EXCEPT ![w] =
                             IF name = None THEN None
                             ELSE lastWrite[req[w].path]]
                /\ IF name # None
                   THEN IF it # None
                        THEN Respond(w, Response(OK, Etag(it),
                                 [kind |-> "item", tz |-> c.tz, item |-> it]))
                        ELSE Respond(w, Response(GONE, None, NoBody))
                   ELSE Respond(w, Response(OK, CalEtag(c),
                            [kind |-> "calendar", tz |-> c.tz,
                             items |-> c.items]))
    /\ UNCHANGED <<store, aclOn, req, resolved, cals, seen, pre, post,
                   lastWrite, served, authVars, unitVars>>

\* Application.delete: calendars[0], get_item and the two tests
DeleteCheck(w) ==
    /\ pc[w] = "delete"
    /\ IF cals[w] = <<>>
       THEN Raise(w) /\ UNCHANGED <<item, seen, trace>>
       ELSE LET cal == cals[w][1].path
                it == GetItem(store[cal], NameFromPath(req[w].path, cal))
            IN  /\ item' = [item EXCEPT ![w] = it]
                /\ seen' = [seen EXCEPT ![w] = CalEtag(store[cal])]
                /\ Called(w, "get_item")
                /\ IF DeleteItemAllowed(it, req[w].ifm)
                   THEN Goto(w, "delete_item")
                   ELSE IF DeleteCollectionAddressed(store, req[w].path,
                                                     req[w].depth)
                   THEN IF DeleteCollectionAllowed(store[cal], req[w].ifm)
                        THEN Goto(w, "delete_collection")
                        ELSE Respond(w, Response(PRECONDITION_FAILED, None,
                                                 NoBody))
                   ELSE Respond(w, Response(PRECONDITION_FAILED, None, NoBody))
    /\ UNCHANGED <<store, aclOn, req, resolved, cals, pre, post, lastWrite, saw,
                   served, authVars, unitVars>>

\* Application.delete: xmlutils.delete
DeleteItem(w) ==
    /\ pc[w] = "delete_item"
    /\ LET cal == cals[w][1].path
           name == NameFromPath(req[w].path, cal)
           c == XmlDelete(store[cal], req[w].path, cal)
       IN  /\ store' = [store EXCEPT ![cal] = c]
           /\ pre' = [pre EXCEPT ![w] =
                        IF GetItem(store[cal], name) = None THEN None
                        ELSE Etag(GetItem(store[cal], name))]
           /\ post' = [post EXCEPT ![w] = GetItem(c, name)]
           /\ lastWrite' = [lastWrite EXCEPT ![req[w].path] = None]
    /\ Called(w, "remove")
    /\ Respond(w, Response(NO_CONTENT, None, XmlDeleteAnswer(req[w].path)))
    /\ UNCHANGED <<aclOn, req, resolved, cals, item, seen, saw, served, authVars, unitVars>>

\* Application.delete: xmlutils.delete_collection
DeleteCollection(w) ==
    /\ pc[w] = "delete_collection"
    /\ store' = DeleteCollectionByPath(store, req[w].path)
    /\ pre' = [pre EXCEPT ![w] = CalEtag(store[cals[w][1].path])]
    /\ lastWrite' = Dropped(lastWrite, req[w].path)
    /\ Called(w, "delete_collection")
    /\ Respond(w, Response(NO_CONTENT, None, NoBody))
    /\ UNCHANGED <<aclOn, req, resolved, cals, item, seen, post, saw, served, authVars, unitVars>>

\* Application.mkcalendar: the resource must not exist yet
MkcalendarCheck(w) ==
    /\ pc[w] = "mkcalendar"
    /\ Called(w, "resource_exists")
    /\ IF ResourceExists(store, req[w].path)
       THEN Respond(w, Response(CONFLICT, None,
                PreconditionFailedResponse("D", "resource-must-be-null")))
       ELSE Goto(w, "mk_create")
    /\ UNCHANGED <<store, aclOn, req, resolved, cals, item, seen, pre, post, lastWrite, saw,
                   served, authVars, unitVars>>

\* Application.mkcalendar: create_calendar, then props_from_request, which
\* raises on a request without content (content is None)
MkcalendarCreate(w) ==
    /\ pc[w] = "mk_create"
    /\ store' = CreateCalendar(store, req[w].path)
    /\ lastWrite' = Dropped(lastWrite, req[w].path)
    /\ Called(w, "create_calendar")
    /\ IF ~req[w].mk.has
       THEN Raise(w)
       ELSE IF req[w].mk.tz # None
            THEN Goto(w, "mk_timezone")
            ELSE Goto(w, "mk_props")
    /\ UNCHANGED <<aclOn, req, resolved, cals, item, seen, pre, post, saw, served, authVars, unitVars>>

\* Application.mkcalendar: calendar.replace('', timezone)
MkcalendarTimezone(w) ==
    /\ pc[w] = "mk_timezone"
    /\ store' = [store EXCEPT ![req[w].path] = ReplaceTimezone(@, req[w].mk.tz)]
    /\ Called(w, "replace")
    /\ Goto(w, "mk_props")
    /\ UNCHANGED <<aclOn, req, resolved, cals, item, seen, pre, post, lastWrite, saw, served,
                   authVars, unitVars>>

\* Application.mkcalendar: the remaining properties, under calendar.props
MkcalendarProps(w) ==
    /\ pc[w] = "mk_props"
    /\ store' = [store EXCEPT ![req[w].path] =
                   WriteProps(@, [@.props EXCEPT !["D:displayname"] =
                                                     req[w].mk.dn])]
    /\ Called(w, "props")
    /\ Goto(w, "mk_write")
    /\ UNCHANGED <<aclOn, req, resolved, cals, item, seen, pre, post, lastWrite, saw, served,
                   authVars, unitVars>>

\* Application.mkcalendar: calendar.write() and the answer
MkcalendarWrite(w) ==
    /\ pc[w] = "mk_write"
    /\ store' = [store EXCEPT ![req[w].path] = [@ EXCEPT !.exists = TRUE]]
    /\ Called(w, "write")
    /\ Respond(w, Response(CREATED, None, NoBody))
    /\ UNCHANGED <<aclOn, req, resolved, cals, item, seen, pre, post, lastWrite, saw, served,
                   authVars, unitVars>>

\* Application.mkcol
Mkcol(w) ==
    /\ pc[w] = "mkcol"
    /\ Respond(w, Response(NOT_IMPLEMENTED, None,
                           [kind |-> "text", text |-> "NOT_IMPLEMENTED"]))
    /\ UNCHANGED <<store, aclOn, req, resolved, cals, item, seen, trace, pre,
                   post, lastWrite, saw, served, authVars, unitVars>>

\* function(environ, items, content) with the attribute decode as function:
\* decode(self, text, environ) takes one argument less and the call raises
NotAHandler(w) ==
    /\ pc[w] = "decode"
    /\ Raise(w)
    /\ UNCHANGED <<store, aclOn, req, resolved, cals, item, seen, trace, pre,
                   post, lastWrite, saw, served, authVars, unitVars>>

\* start_response: the response leaves and the worker takes the next request
Finish(w) ==
    /\ pc[w] = "done"
    /\ pc' = [pc EXCEPT ![w] = "idle"]
    /\ req' = [req EXCEPT ![w] = NoRequest]
    /\ resolved' = [resolved EXCEPT ![w] = <<>>]
    /\ cals' = [cals EXCEPT ![w] = <<>>]
    /\ item' = [item EXCEPT ![w] = None]
    /\ seen' = [seen EXCEPT ![w] = None]
    /\ resp' = [resp EXCEPT ![w] = NoResponse]
    /\ trace' = [trace EXCEPT ![w] = <<>>]
    /\ pre' = [pre EXCEPT ![w] = None]
    /\ post' = [post EXCEPT ![w] = None]
    /\ saw' = [saw EXCEPT ![w] = None]
    /\ UNCHANGED <<store, aclOn, lastWrite, served, authVars, unitVars>>

Next ==
    \E w \in Workers :
        \/ Receive(w)
        \/ Call(w)
        \/ PutCheck(w)
        \/ PutWrite(w)
        \/ PutEtag(w)
        \/ Get(w)
        \/ DeleteCheck(w)
        \/ DeleteItem(w)
        \/ DeleteCollection(w)
        \/ MkcalendarCheck(w)
        \/ MkcalendarCreate(w)
        \/ MkcalendarTimezone(w)
        \/ MkcalendarProps(w)
        \/ MkcalendarWrite(w)
        \/ Mkcol(w)
        \/ NotAHandler(w)
        \/ Finish(w)

Spec == Init /\ [][Next]_vars

\* -------------------------------------------------- the rights check alone
\* The loop of Application.__call__ over any resolved chain and any answers
\* of the backend.
AuthResources ==
    {CalendarResource(<<o, "cal">>) : o \in Owners}
        \cup {ItemResource(<<o, "cal">>, "a") : o \in Owners}

Chains == UNION {[1..n -> AuthResources] : n \in 0..MaxChain}

InitAuth ==
    /\ store \in {[p \in CalPaths |-> NoCalendar]}
    /\ aclOn = TRUE
    /\ pc = [w \in Workers |-> "idle"]
    /\ req = [w \in Workers |-> NoRequest]
    /\ cals = [w \in Workers |-> <<>>]
    /\ item = [w \in Workers |-> None]
    /\ seen = [w \in Workers |-> None]
    /\ resolved = [w \in Workers |-> <<>>]
    /\ resp = [w \in Workers |-> NoResponse]
    /\ trace = [w \in Workers |-> <<>>]
    /\ pre = [w \in Workers |-> None]
    /\ post = [w \in Workers |-> None]
    /\ lastWrite = NoWrites
    /\ saw = [w \in Workers |-> None]
    /\ served = 0
    /\ chainIn \in Chains
    /\ grants \in SUBSET Owners
    /\ authOut = [done |-> FALSE, result |-> StartRights]
    /\ arg = None
    /\ ret = None

RightsWalk ==
    /\ ~authOut.done
    /\ authOut' = [done |-> TRUE,
                   result |-> CheckRights(chainIn, grants, 1, StartRights)]
    /\ UNCHANGED <<store, aclOn, pc, req, resolved, cals, item, seen, resp, trace, pre, post,
                   lastWrite, saw, served, chainIn, grants, unitVars>>

NextAuth == RightsWalk

SpecAuth == InitAuth /\ [][NextAuth]_vars

\* ------------------------------------------------ one function at a time
\* The functions of the request path that do not touch the store are run on
\* their own, on every input of a bounded set; the server is at rest.
serverVars ==
    <<store, aclOn, pc, req, resolved, cals, item, seen, resp, trace, pre,
      post, lastWrite, saw, served>>

AtRest ==
    /\ store = [p \in CalPaths |-> NoCalendar]
    /\ aclOn = FALSE
    /\ pc = [w \in Workers |-> "idle"]
    /\ req = [w \in Workers |-> NoRequest]
    /\ cals = [w \in Workers |-> <<>>]
    /\ item = [w \in Workers |-> None]
    /\ seen = [w \in Workers |-> None]
    /\ resolved = [w \in Workers |-> <<>>]
    /\ resp = [w \in Workers |-> NoResponse]
    /\ trace = [w \in Workers |-> <<>>]
    /\ pre = [w \in Workers |-> None]
    /\ post = [w \in Workers |-> None]
    /\ lastWrite = NoWrites
    /\ saw = [w \in Workers |-> None]
    /\ served = 0
    /\ chainIn = <<>>
    /\ grants = {}
    /\ authOut = [done |-> FALSE, result |-> StartRights]

\* ------------------------------------------------------------ sanitize_uri
\* A URI is a sequence of tokens: a slash, a dot, a letter, and the escapes
\* of a dot (%2e), of a slash (%2f) and of the escaped dot (%252e).
UriTokens == {"/", ".", "x", "%2e", "%2f", "%252e"}

Uris == UNION {[1..n -> UriTokens] : n \in 0..MaxUri}

\* urllib.unquote: one pass over the escapes
UnquoteToken(t) ==
    CASE t = "%2e" -> "."
      [] t = "%2f" -> "/"
      [] t = "%252e" -> "%2e"
      [] OTHER -> t

Unquote(uri) == [i \in 1..Len(uri) |-> UnquoteToken(uri[i])]

\* path.split('/')
RECURSIVE Split(_, _, _)
Split(path, i, comp) ==
    IF i > Len(path) THEN <<comp>>
    ELSE IF path[i] = "/" THEN <<comp>> \o Split(path, i + 1, <<>>)
    ELSE Split(path, i + 1, Append(comp, path[i]))

\* '/'.join(comps)
RECURSIVE Join(_, _)
Join(comps, i) ==
    IF i > Len(comps) THEN <<>>
    ELSE (IF i > 1 THEN <<"/">> ELSE <<>>) \o comps[i] \o Join(comps, i + 1)

DotDot == <<".", ".">>

\* posixpath.normpath: the number of leading slashes that are kept
InitialSlashes(path) ==
    IF path = <<>> \/ path[1] # "/" THEN 0
    ELSE IF /\ Len(path) >= 2 /\ path[2] = "/"
            /\ ~(Len(path) >= 3 /\ path[3] = "/")
         THEN 2
         ELSE 1

\* posixpath.normpath: the loop over the components
RECURSIVE NormComps(_, _, _, _)
NormComps(comps, i, initial_slashes, new_comps) ==
    IF i > Len(comps) THEN new_comps
    ELSE LET comp == comps[i]
             n == Len(new_comps)
         IN  NormComps(comps, i + 1, initial_slashes,
                 IF comp \in {<<>>, <<".">>} THEN new_comps
                 ELSE IF \/ comp # DotDot
                         \/ (initial_slashes = 0 /\ n = 0)
                         \/ (n > 0 /\ new_comps[n] = DotDot)
                      THEN Append(new_comps, comp)
                      ELSE IF n > 0 THEN SubSeq(new_comps, 1, n - 1)
                      ELSE new_comps)

Normpath(path) ==
    IF path = <<>> THEN <<".">>
    ELSE LET initial_slashes == InitialSlashes(path)
             comps == NormComps(Split(path, 1, <<>>), 1, initial_slashes, <<>>)
             joined == [i \in 1..initial_slashes |-> "/"] \o Join(comps, 1)
         IN  IF joined = <<>> THEN <<".">> ELSE joined

\* Application.sanitize_uri
SanitizeUri(uri) == Normpath(Unquote(uri))

InitSanitize ==
    /\ AtRest
    /\ arg \in Uris
    /\ ret = <<>>

\* sanitize_uri on the URI, then on its own result
Sanitize ==
    /\ Len(ret) < 2
    /\ ret' = Append(ret, SanitizeUri(IF ret = <<>> THEN arg ELSE ret[1]))
    /\ UNCHANGED <<serverVars, authVars, arg>>

NextSanitize == Sanitize

SpecSanitize == InitSanitize /\ [][NextSanitize]_vars

\* ------------------------------------------------------------------ decode
\* the codecs Python knows by these names, and a name it knows no codec for
KnownCharsets == {"utf-8", "iso8859-1", "ascii"}

Charsets == KnownCharsets \cup {"bogus"}

\* a body is a sequence of bytes, each of one kind: an ASCII byte, a
\* well-formed multi-byte UTF-8 sequence, a byte >= 0x80 that is not UTF-8
ByteKinds == {"ascii", "utf8", "high"}

Texts == UNION {[1..n -> ByteKinds] : n \in 1..MaxBody}

\* environ.get("CONTENT_TYPE"): absent, without charset parameter, or with one
ContentTypes ==
    {[type |-> NoHeader, charset |-> None],
     [type |-> "text/xml", charset |-> None]}
        \cup [type : {"text/xml"}, charset : Charsets]

\* text.decode(charset) returns, for a codec Python knows
Decodes(text, charset) ==
    CASE charset = "iso8859-1" -> TRUE
      [] charset = "utf-8" -> \A i \in 1..Len(text) : text[i] # "high"
      [] charset = "ascii" -> \A i \in 1..Len(text) : text[i] = "ascii"

Decoded(text, charset) == [raised |-> None, charset |-> charset, text |-> text]

Raised(exception) == [raised |-> exception, charset |-> None, text |-> <<>>]

\* the list ``charsets`` of Application.decode
CharsetsToTry(content_type, encoding) ==
    (IF content_type.charset # None THEN <<content_type.charset>> ELSE <<>>)
        \o <<encoding, "utf-8", "iso8859-1">>

\* the loop of Application.decode: UnicodeDecodeError is passed over, the
\* LookupError of an unknown codec name is not
RECURSIVE DecodeLoop(_, _, _)
DecodeLoop(text, charsets, i) ==
    IF i > Len(charsets) THEN Raised("UnicodeDecodeError")
    ELSE IF charsets[i] \notin KnownCharsets THEN Raised("LookupError")
    ELSE IF Decodes(text, charsets[i]) THEN Decoded(text, charsets[i])
    ELSE DecodeLoop(text, charsets, i + 1)

\* Application.decode(text, environ)
DecodeText(text, content_type, encoding) ==
    DecodeLoop(text, CharsetsToTry(content_type, encoding), 1)

InitDecode ==
    /\ AtRest
    /\ arg \in [text : Texts, content_type : ContentTypes,
                 encoding : KnownCharsets]
    /\ ret = Raised("pending")

Decode ==
    /\ ret = Raised("pending")
    /\ ret' = DecodeText(arg.text, arg.content_type, arg.encoding)
    /\ UNCHANGED <<serverVars, authVars, arg>>

NextDecode == Decode

SpecDecode == InitDecode /\ [][NextDecode]_vars

\* ---------------------------------------------------------------- propfind
\* the resources of a chain as _propfind_response reads them
PropfindCalendars ==
    [kind : {"calendar"}, url : {"/alice/cal/"}, name : {None},
     etag : {"ctag-1"}, is_principal : BOOLEAN,
     owner_url : {None, "/alice/"}, timezone : {"TZ1"},
     props : [PropNames -> PropVals \cup {None}]]

PropfindItems ==
    [kind : {"item"}, url : {None}, name : {"a"}, etag : {"etag-B1"},
     is_principal : {FALSE}, owner_url : {None}, timezone : {None},
     props : {EmptyProps}]

PropfindResources == PropfindCalendars \cup PropfindItems

\* the tags a request asks for, in the prefix:local form
RequestTags ==
    {"D:getetag", "D:resourcetype", "D:getcontenttype", "D:owner",
     "D:current-user-principal", "C:calendar-home-set", "D:displayname"}

TagLists == UNION {[1..n -> RequestTags] : n \in 0..MaxTags}

Leaf(tag, text) == [tag |-> tag, text |-> text]

Element(tag, text, children) ==
    [tag |-> tag, text |-> text, children |-> children]

\* Mutant of PropfindElement: the resourcetype of a collection carries no
\* collection marker.
PropfindElement_NoCollection(path, it, tag, user) ==
    LET is_calendar == it.kind = "calendar"
        Found(text, children) ==
            [is404 |-> FALSE, element |-> Element(tag, text, children)]
        NotFound == [is404 |-> TRUE, element |-> Element(tag, None, <<>>)]
    IN  IF tag = "D:getetag" THEN Found(it.etag, <<>>)
        ELSE IF tag = "D:principal-URL"
        THEN Found(None, <<Leaf("D:href", path)>>)
        ELSE IF tag \in {"D:principal-collection-set",
                         "C:calendar-user-address-set", "C:calendar-home-set"}
        THEN Found(None, <<Leaf("D:href", path)>>)
        ELSE IF tag = "C:supported-calendar-component-set"
        THEN Found(None, <<Leaf("C:comp", "VTODO"), Leaf("C:comp", "VEVENT"),
                           Leaf("C:comp", "VJOURNAL")>>)
        ELSE IF tag = "D:current-user-principal" /\ user # None
        THEN Found(None, <<Leaf("D:href", "/" \o user \o "/")>>)
        ELSE IF tag = "D:current-user-privilege-set"
        THEN Found(None, <<Leaf("D:privilege", "D:all")>>)
        ELSE IF tag = "D:supported-report-set"
        THEN Found(None,
                 <<Leaf("D:supported-report", "principal-property-search"),
                   Leaf("D:supported-report", "sync-collectionexpand-property"),
                   Leaf("D:supported-report", "principal-search-property-set")>>)
        ELSE IF is_calendar
        THEN IF tag = "D:getcontenttype" THEN Found("text/calendar", <<>>)
             ELSE IF tag = "D:resourcetype"
             THEN Found(None,
                      (IF it.is_principal THEN <<Leaf("D:principal", None)>>
                       ELSE <<Leaf("C:calendar", None)>>))
             ELSE IF tag = "D:owner" /\ it.owner_url # None
             THEN Found(it.owner_url, <<>>)
             ELSE IF tag = "CS:getctag" THEN Found(it.etag, <<>>)
             ELSE IF tag = "C:calendar-timezone" THEN Found(it.timezone, <<>>)
             ELSE IF tag \in PropNames /\ it.props[tag] # None
             THEN Found(it.props[tag], <<>>)
             ELSE NotFound
        ELSE IF tag = "D:getcontenttype"
        THEN Found("text/calendar; component=vevent", <<>>)
        ELSE IF tag = "D:resourcetype" THEN Found(None, <<>>)
        ELSE NotFound

\* _propfind_response, the body of the loop over the requested tags: the
\* element of one tag and whether it goes to the 404 group
PropfindElement(path, it, tag, user) ==
    LET is_calendar == it.kind = "calendar"
        Found(text, children) ==
            [is404 |-> FALSE, element |-> Element(tag, text, children)]
        NotFound == [is404 |-> TRUE, element |-> Element(tag, None, <<>>)]
    IN  IF tag = "D:getetag" THEN Found(it.etag, <<>>)
        ELSE IF tag = "D:principal-URL"
        THEN Found(None, <<Leaf("D:href", path)>>)
        ELSE IF tag \in {"D:principal-collection-set",
                         "C:calendar-user-address-set", "C:calendar-home-set"}
        THEN Found(None, <<Leaf("D:href", path)>>)
        ELSE IF tag = "C:supported-calendar-component-set"
        THEN Found(None, <<Leaf("C:comp", "VTODO"), Leaf("C:comp", "VEVENT"),
                           Leaf("C:comp", "VJOURNAL")>>)
        ELSE IF tag = "D:current-user-principal" /\ user # None
        THEN Found(None, <<Leaf("D:href", "/" \o user \o "/")>>)
        ELSE IF tag = "D:current-user-privilege-set"
        THEN Found(None, <<Leaf("D:privilege", "D:all")>>)
        ELSE IF tag = "D:supported-report-set"
        THEN Found(None,
                 <<Leaf("D:supported-report", "principal-property-search"),
                   Leaf("D:supported-report", "sync-collectionexpand-property"),
                   Leaf("D:supported-report", "principal-search-property-set")>>)
        ELSE IF is_calendar
        THEN IF tag = "D:getcontenttype" THEN Found("text/calendar", <<>>)
             ELSE IF tag = "D:resourcetype"
             THEN Found(None,
                      (IF it.is_principal THEN <<Leaf("D:principal", None)>>
                       ELSE <<Leaf("C:calendar", None)>>)
                          \o <<Leaf("D:collection", None)>>)
             ELSE IF tag = "D:owner" /\ it.owner_url # None
             THEN Found(it.owner_url, <<>>)
             ELSE IF tag = "CS:getctag" THEN Found(it.etag, <<>>)
             ELSE IF tag = "C:calendar-timezone" THEN Found(it.timezone, <<>>)
             ELSE IF tag \in PropNames /\ it.props[tag] # None
             THEN Found(it.props[tag], <<>>)
             ELSE NotFound
        ELSE IF tag = "D:getcontenttype"
        THEN Found("text/calendar; component=vevent", <<>>)
        ELSE IF tag = "D:resourcetype" THEN Found(None, <<>>)
        ELSE NotFound

\* the elements of the requested tags that went to one of the two groups
RECURSIVE PropGroup(_, _, _, _, _, _)
PropGroup(path, it, props, user, is404, i) ==
    IF i > Len(props) THEN <<>>
    ELSE LET e == PropfindElement(path, it, props[i], user)
         IN  (IF e.is404 = is404 THEN <<e.element>> ELSE <<>>)
                 \o PropGroup(path, it, props, user, is404, i + 1)

Propstat(prop, status) == [prop |-> prop, status |-> status]

\* Mutant of PropfindResponse: the 404 group is always appended.
PropfindResponse_Always404(path, it, props, user) ==
    LET prop200 == PropGroup(path, it, props, user, FALSE, 1)
        prop404 == PropGroup(path, it, props, user, TRUE, 1)
    IN  [href |-> IF it.kind = "calendar" THEN <<it.url>>
                  ELSE <<path, it.name>>,
         propstat |-> <<Propstat(prop200, 200), Propstat(prop404, 404)>>]

\* _propfind_response(path, item, props, user)
PropfindResponse(path, it, props, user) ==
    LET prop200 == PropGroup(path, it, props, user, FALSE, 1)
        prop404 == PropGroup(path, it, props, user, TRUE, 1)
    IN  [href |-> IF it.kind = "calendar" THEN <<it.url>>
                  ELSE <<path, it.name>>,
         propstat |-> <<Propstat(prop200, 200)>>
                         \o (IF Len(prop404) > 0
                             THEN <<Propstat(prop404, 404)>> ELSE <<>>)]

\* xmlutils.propfind(path, xml_request, calendars, user): the multistatus;
\* a request without prop element raises (prop_element is None)
XmlPropfind(path, xml_request, calendars, user) ==
    IF ~xml_request.prop
    THEN [raised |-> "TypeError", multistatus |-> <<>>]
    ELSE [raised |-> None,
          multistatus |->
              [i \in 1..Len(calendars) |->
                  PropfindResponse(path, calendars[i], xml_request.tags, user)]]

PropfindRequests ==
    {[prop |-> FALSE, tags |-> <<>>]} \cup [prop : {TRUE}, tags : TagLists]

InitPropfind ==
    /\ AtRest
    /\ arg \in [path : {"/alice/cal/"}, xml_request : PropfindRequests,
                 calendars : UNION {[1..n -> PropfindResources] :
                                       n \in 0..MaxResources},
                 user : {None, "alice"}]
    /\ ret = [raised |-> "pending", multistatus |-> <<>>]

Propfind ==
    /\ ret.raised = "pending"
    /\ ret' = XmlPropfind(arg.path, arg.xml_request, arg.calendars, arg.user)
    /\ UNCHANGED <<serverVars, authVars, arg>>

NextPropfind == Propfind

SpecPropfind == InitPropfind /\ [][NextPropfind]_vars

\* --------------------------------------------------------------- proppatch
\* property names as props_from_request returns them: prefix:local for an
\* element of a known namespace, {url}local for one of another namespace, the
\* bare local name for an element without namespace
PatchNames == {"D:displayname", "C:calendar-timezone", "{urn:x}color", "color"}

\* the lists of distinct names of up to n entries (the keys of the dictionary
\* props_from_request returns, in document order)
NameLists(n) ==
    {l \in UNION {[1..k -> PatchNames] : k \in 0..n} :
        \A i, j \in 1..Len(l) : l[i] = l[j] => i = j}

\* the body of a PROPPATCH: the properties of its set element and of its
\* remove element; every property to set comes with the value "n1"
PatchRequests == [set : NameLists(MaxEntries), remove : NameLists(MaxEntries)]

\* the collection before the request: stored properties have the value "n0"
PatchCalendars ==
    [props : [PatchNames -> {None, "n0"}], timezone : {"TZ0"}]

\* _add_propstat_to(response, tag, status_number): a tag without '{' is split
\* at its colon; one without colon either makes _tag raise
AddPropstat(st, name, status) ==
    IF name = "color"
    THEN [st EXCEPT !.raised = "TypeError"]
    ELSE [st EXCEPT !.answer = Append(@, [tag |-> name, status |-> status])]

\* proppatch: the loop over props_to_set
RECURSIVE PatchSets(_, _, _)
PatchSets(st, names, i) ==
    IF i > Len(names) \/ st.raised # None THEN st
    ELSE LET after ==
                 IF names[i] = "C:calendar-timezone"
                 THEN [st EXCEPT !.timezone = "n1"]
                 ELSE [st EXCEPT !.props[names[i]] = "n1"]
         IN  PatchSets(AddPropstat(after, names[i], 200), names, i + 1)

\* proppatch: the loop over props_to_remove
RECURSIVE PatchRemoves(_, _, _)
PatchRemoves(st, names, i) ==
    IF i > Len(names) \/ st.raised # None THEN st
    ELSE PatchRemoves(
             IF st.props[names[i]] = None
             THEN AddPropstat(st, names[i], 412)
             ELSE AddPropstat([st EXCEPT !.props[names[i]] = None],
                              names[i], 200),
             names, i + 1)

\* xmlutils.proppatch(path, xml_request, calendar): the collection as the call
\* leaves it (the timezone is written at once, the property store is written
\* back when the ``with`` block is left, by an exception too) and the
\* propstat entries of the answer
XmlProppatch(xml_request, calendar) ==
    LET start == [props |-> calendar.props, timezone |-> calendar.timezone,
                  answer |-> <<>>, raised |-> None]
        end == PatchRemoves(PatchSets(start, xml_request.set, 1),
                            xml_request.remove, 1)
    IN  [calendar |-> [props |-> end.props, timezone |-> end.timezone],
         answer |-> IF end.raised = None THEN end.answer ELSE <<>>,
         raised |-> end.raised]

InitProppatch ==
    /\ AtRest
    /\ arg \in [xml_request : PatchRequests, calendar : PatchCalendars]
    /\ ret = [calendar |-> arg.calendar, answer |-> <<>>, raised |-> "pending"]

Proppatch ==
    /\ ret.raised = "pending"
    /\ ret' = XmlProppatch(arg.xml_request, arg.calendar)
    /\ UNCHANGED <<serverVars, authVars, arg>>

NextProppatch == Proppatch

SpecProppatch == InitProppatch /\ [][NextProppatch]_vars

\* the body of a PROPPATCH as a document: up to MaxActions set and remove
\* elements in document order, each with the properties of its prop element
PatchBodies ==
    UNION {[1..n -> [action : {"set", "remove"}, props : NameLists(1)]] :
              n \in 0..MaxActions}

\* props_from_request(root, actions=(action,)): root.find gives the first
\* element of that action; without one the root is searched for a prop
\* element, and a propertyupdate has none
PropsFromRequest(body, action) ==
    LET places == {i \in 1..Len(body) : body[i].action = action}
    IN  IF places = {} THEN <<>>
        ELSE body[CHOOSE i \in places : \A j \in places : i <= j].props

InitPatchBody ==
    /\ AtRest
    /\ arg \in [body : PatchBodies, calendar : PatchCalendars]
    /\ ret = [calendar |-> arg.calendar, answer |-> <<>>, raised |-> "pending"]

\* proppatch from the text of the request on: both calls of
\* props_from_request, then the two loops
ProppatchBody ==
    /\ ret.raised = "pending"
    /\ ret' = XmlProppatch(
                  [set |-> PropsFromRequest(arg.body, "set"),
                   remove |-> PropsFromRequest(arg.body, "remove")],
                  arg.calendar)
    /\ UNCHANGED <<serverVars, authVars, arg>>

NextPatchBody == ProppatchBody

SpecPatchBody == InitPatchBody /\ [][NextPatchBody]_vars

\* ------------------------------------------------------------------ report
\* Times are whole days 1..MaxTime; NoTime stands for None: no bound, no
\* recurrence id.  The items start on one of the first MaxStart days, so that
\* a bound can lie several occurrences after the start of an item.
NoTime == 0 - 1

Times == 1..MaxTime

Starts == 1..MaxStart

\* recurrence rules: none, daily with two occurrences, daily without end
Rules == {None, "FREQ=DAILY;COUNT=2", "FREQ=DAILY"}

\* an item of the collection as report reads it; every item lasts one day.
\* Its text has the lines DTSTART:, DTEND:, SUMMARY: and, with a rule, RRULE:,
\* which the substitutions of report rewrite; number is the n of the "(#n)"
\* suffix of its SUMMARY, 0 without suffix.
ReportItem(name, dtstart, rrule) ==
    [name |-> name, dtstart |-> dtstart, dtend |-> dtstart + 1,
     rrule |-> rrule, recurrence_id |-> NoTime, number |-> 0]

\* the collections: each of the items a and b is absent or there, in the
\* order a, b
ReportCalendars ==
    LET Variants(name) ==
            {<<>>} \cup {<<ReportItem(name, t, r)>> : t \in Starts, r \in Rules}
    IN  {a \o b : a \in Variants("a"), b \in Variants("b")}

ReportPath == <<"alice", "cal">>

ReportHrefs == {ReportPath, ReportPath \o <<"a">>, ReportPath \o <<"b">>}

\* the children of the requested properties, in document order
Modifiers ==
    {<<>>, <<"C:expand">>, <<"C:limit-recurrence-set">>,
     <<"C:expand", "C:limit-recurrence-set">>,
     <<"C:limit-recurrence-set", "C:expand">>}

\* the body of a REPORT: a calendar-query on the request path or a
\* calendar-multiget with its set of hrefs
ReportRequests ==
    [root : {"C:calendar-query"}, hrefs : {{}},
     modifiers : Modifiers,
     start : Times \cup {NoTime}, end : Times \cup {NoTime}]
    \cup
    [root : {"C:calendar-multiget"}, hrefs : SUBSET ReportHrefs,
     modifiers : Modifiers,
     start : Times \cup {NoTime}, end : Times \cup {NoTime}]

\* report: the loop over the children of the requested properties; both
\* tests compare with the expand tag
RECURSIVE ReportFlags(_, _, _)
ReportFlags(children, i, flags) ==
    IF i > Len(children) THEN flags
    ELSE ReportFlags(children, i + 1,
             IF children[i] = "C:expand"
             THEN [flags EXCEPT !.expand = TRUE]
             ELSE IF children[i] = "C:expand"
             THEN [expand |-> TRUE, limit_recurrence_set |-> TRUE]
             ELSE flags)

\* the occurrences up to ``end``, as ``if dtstart > end: break`` would leave
\* them: an occurrence that starts at the end bound is taken as well
OccurrencesBefore_Through(it, end) ==
    LET last == IF it.rrule = "FREQ=DAILY;COUNT=2"
                THEN IF it.dtstart + 1 < end THEN it.dtstart + 1 ELSE end
                ELSE end
    IN  [k \in 1..(IF last < it.dtstart THEN 0 ELSE last - it.dtstart + 1) |->
            it.dtstart + k - 1]

\* rrulestr(item.rrule.rrule, dtstart=item.dtstart), as far as the loop of
\* report reads it: the occurrences before ``end``
OccurrencesBefore(it, end) ==
    LET last == IF it.rrule = "FREQ=DAILY;COUNT=2"
                THEN IF it.dtstart + 1 < end THEN it.dtstart + 1 ELSE end - 1
                ELSE end - 1
    IN  [k \in 1..(IF last < it.dtstart THEN 0 ELSE last - it.dtstart + 1) |->
            it.dtstart + k - 1]

\* report: the events made of the occurrences of one item with a rule; i is
\* the number of occurrences emitted before this one
RECURSIVE ExpandOccurrences(_, _, _, _, _, _)
ExpandOccurrences(it, occurrences, k, i, start, limit_recurrence_set) ==
    IF k > Len(occurrences) THEN <<>>
    ELSE IF start = NoTime \/ occurrences[k] > start
    THEN <<[name |-> it.name,
            dtstart |-> occurrences[k],
            dtend |-> occurrences[k] + (it.dtend - it.dtstart),
            rrule |-> IF i = 0 /\ limit_recurrence_set
                      THEN it.rrule ELSE None,
            recurrence_id |-> IF i > 0 THEN it.dtstart ELSE NoTime,
            number |-> IF i > 0 THEN i + 1 ELSE 0]>>
            \o ExpandOccurrences(it, occurrences, k + 1, i + 1, start,
                                 limit_recurrence_set)
    ELSE ExpandOccurrences(it, occurrences, k + 1, i, start,
                           limit_recurrence_set)

\* report: the test of an item that is not expanded
InTimeRange(it, start, end) ==
    /\ (start = NoTime \/ start < it.dtstart)
    /\ (end = NoTime \/ end > it.dtstart)

\* report: the loop ``for item in items`` under ``if expand``
RECURSIVE NewItems(_, _, _, _, _)
NewItems(items, k, start, end, limit_recurrence_set) ==
    IF k > Len(items) THEN <<>>
    ELSE (IF items[k].rrule # None /\ end # NoTime
          THEN ExpandOccurrences(items[k], OccurrencesBefore(items[k], end),
                                 1, 0, start, limit_recurrence_set)
          ELSE IF InTimeRange(items[k], start, end)
               THEN <<items[k]>> ELSE <<>>)
         \o NewItems(items, k + 1, start, end, limit_recurrence_set)

\* sorted(new_items, key=lambda item: item.dtstart): stable
RECURSIVE Sorted(_)
Sorted(items) ==
    IF items = <<>> THEN <<>>
    ELSE LET n == Len(items)
             rest == Sorted(SubSeq(items, 1, n - 1))
             x == items[n]
             before == SelectSeq(rest, LAMBDA y : y.dtstart <= x.dtstart)
             after == SelectSeq(rest, LAMBDA y : y.dtstart > x.dtstart)
         IN  before \o <<x>> \o after

\* report: the responses of one hreference.  The items of a named item are a
\* generator, which the loop under ``if expand`` uses up; the components of
\* the collection are a list, which is still there after the loop.
HrefResponses(hreference, calendar, flags, start, end) ==
    LET name == NameFromPath(hreference, ReportPath)
        items == IF name # None
                 THEN SelectSeq(calendar, LAMBDA it : it.name = name)
                 ELSE calendar
        new_items == IF flags.expand
                     THEN NewItems(items, 1, start, end,
                                   flags.limit_recurrence_set)
                     ELSE <<>>
        final == IF Len(new_items) > 0 THEN Sorted(new_items)
                 ELSE IF flags.expand /\ name # None THEN <<>>
                 ELSE items
    IN  [k \in 1..Len(final) |->
            [href |-> <<CalendarOf(hreference), final[k].name>>,
             item |-> final[k]]]

RECURSIVE AllResponses(_, _, _, _, _, _)
AllResponses(hreferences, k, calendar, flags, start, end) ==
    IF k > Len(hreferences) THEN <<>>
    ELSE HrefResponses(hreferences[k], calendar, flags, start, end)
            \o AllResponses(hreferences, k + 1, calendar, flags, start, end)

\* xmlutils.report(path, xml_request, calendar); ``hreferences`` is the order
\* in which the loop takes the hrefs (a set, for a multiget)
XmlReport(path, xml_request, calendar, hreferences) ==
    LET flags == ReportFlags(xml_request.modifiers, 1,
                     [expand |-> FALSE, limit_recurrence_set |-> FALSE])
    IN  [done |-> TRUE, flags |-> flags,
         multistatus |-> AllResponses(hreferences, 1, calendar, flags,
                                      xml_request.start, xml_request.end)]

\* the orders in which a set of hrefs can be iterated
Orders(hrefs) ==
    {l \in [1..Cardinality(hrefs) -> hrefs] :
        \A i, j \in 1..Cardinality(hrefs) : l[i] = l[j] => i = j}

InitReport ==
    /\ AtRest
    /\ arg \in [path : {ReportPath, ReportPath \o <<"a">>},
                 xml_request : ReportRequests, calendar : ReportCalendars]
    /\ ret = [done |-> FALSE,
              flags |-> [expand |-> FALSE, limit_recurrence_set |-> FALSE],
              multistatus |-> <<>>]

Report ==
    /\ ~ret.done
    /\ \E hreferences \in
            IF arg.xml_request.root = "C:calendar-multiget"
            THEN Orders(arg.xml_request.hrefs) ELSE {<<arg.path>>} :
          ret' = XmlReport(arg.path, arg.xml_request, arg.calendar,
                           hreferences)
    /\ UNCHANGED <<serverVars, authVars, arg>>

NextReport == Report

SpecReport == InitReport /\ [][NextReport]_vars

\* ------------------------------------------- report, the loops step by step
\* The loop ``for item in items`` under ``if expand`` with the iteration over
\* the occurrences of a rule inside it, one test or one occurrence per step.
\* ret.k is the place of the item at hand, ret.n the number of occurrences the
\* rule has given for it, ret.i the number of them that were emitted.

\* the test that ends the iteration over the occurrences, never true
Break_Never(dtstart, end) == FALSE

\* ``if dtstart >= end: break``
Break(dtstart, end) == dtstart >= end

\* whether the rule of the item has an occurrence after n of them
HasOccurrence(it, n) ==
    \/ it.rrule = "FREQ=DAILY"
    \/ it.rrule = "FREQ=DAILY;COUNT=2" /\ n < 2

InitExpand ==
    /\ AtRest
    /\ arg \in [calendar : ReportCalendars,
                 start : Times \cup {NoTime}, end : Times \cup {NoTime},
                 limit_recurrence_set : BOOLEAN]
    /\ ret = [pc |-> "items", k |-> 1, n |-> 0, i |-> 0, new_items |-> <<>>]

\* the head of ``for item in items`` and the test ``if item.rrule and end``
ExpandItem ==
    /\ ret.pc = "items"
    /\ ret' =
          IF ret.k > Len(arg.calendar) THEN [ret EXCEPT !.pc = "done"]
          ELSE LET it == arg.calendar[ret.k] IN
               IF it.rrule # None /\ arg.end # NoTime
               THEN [ret EXCEPT !.pc = "occurrences", !.n = 0, !.i = 0]
               ELSE [ret EXCEPT
                        !.k = @ + 1,
                        !.new_items =
                            IF InTimeRange(it, arg.start, arg.end)
                            THEN Append(@, it) ELSE @]
    /\ UNCHANGED <<serverVars, authVars, arg>>

\* one turn of ``for dtstart in rrulestr(...)``: the rule has no further
\* occurrence, or the occurrence ends the loop, or it is emitted or skipped
ExpandOccurrence ==
    /\ ret.pc = "occurrences"
    /\ ret.n < MaxOccurrences
    /\ LET it == arg.calendar[ret.k]
           dtstart == it.dtstart + ret.n
       IN  ret' =
             IF ~HasOccurrence(it, ret.n) \/ Break(dtstart, arg.end)
             THEN [ret EXCEPT !.pc = "items", !.k = @ + 1]
             ELSE IF arg.start = NoTime \/ dtstart > arg.start
             THEN [ret EXCEPT
                      !.n = @ + 1, !.i = @ + 1,
                      !.new_items = Append(@,
                          [name |-> it.name,
                           dtstart |-> dtstart,
                           dtend |-> dtstart + (it.dtend - it.dtstart),
                           rrule |-> IF ret.i = 0 /\ arg.limit_recurrence_set
                                     THEN it.rrule ELSE None,
                           recurrence_id |->
                               IF ret.i > 0 THEN it.dtstart ELSE NoTime,
                           number |-> IF ret.i > 0 THEN ret.i + 1 ELSE 0])]
             ELSE [ret EXCEPT !.n = @ + 1]
    /\ UNCHANGED <<serverVars, authVars, arg>>

NextExpand == ExpandItem \/ ExpandOccurrence

\* the thread that serves the request runs on until report returns
SpecExpand == InitExpand /\ [][NextExpand]_vars /\ WF_vars(NextExpand)

\* -------------------------------------- one request on a chain of collections
\* Application.__call__ with a rights backend and the handlers put and delete,
\* for one request on any chain that starts with the collection of the path
\* and goes on with collections and items of any owner.  The request has no
\* If-Match header.
ChainCals == {<<o, "cal">> : o \in Owners}

ChainPaths == ChainCals \cup {c \o <<"a">> : c \in ChainCals}

\* the collection a path of ChainPaths lies in
Addressed(path) == SubSeq(path, 1, 2)

\* what from_path returned: the collection of the path, then up to
\* MaxChain - 1 resources
ResolvedChains(path) ==
    {<<CalendarResource(Addressed(path))>> \o rest :
        rest \in UNION {[1..n -> AuthResources] : n \in 0..(MaxChain - 1)}}

\* every collection is there, empty or with the item a
ChainStores ==
    [ChainCals -> {EmptyCalendar, PutItem(EmptyCalendar, "a", "B1")}]

ChainRequests ==
    [method : {"DELETE"}, path : ChainPaths,
     depth : {NoHeader, "0", "infinity"}, content : {None}]
    \cup
    [method : {"PUT"}, path : ChainPaths \ ChainCals,
     depth : {NoHeader}, content : {"B2"}]

\* a storage call that changes the store, and the collection it changes
Mutation(call, target) == [call |-> call, target |-> target]

InitChain ==
    /\ AtRest
    /\ arg \in UNION {[request : {r}, chain : ResolvedChains(r.path),
                       allowed : SUBSET Owners, store : ChainStores] :
                          r \in ChainRequests}
    /\ ret = [pc |-> "call", calendars |-> <<>>, status |-> 0,
              store |-> arg.store, mutations |-> <<>>]

\* Application.__call__: the rights check of a chain that is not empty, then
\* the handler or the 401
CallChain ==
    /\ ret.pc = "call"
    /\ LET calendars ==
               CheckRights(arg.chain, arg.allowed, 1, StartRights).calendars
       IN  ret' = IF calendars # <<>>
                  THEN [ret EXCEPT !.calendars = calendars,
                                   !.pc = Handler(arg.request.method)]
                  ELSE [ret EXCEPT !.status = UNAUTHORIZED, !.pc = "done"]
    /\ UNCHANGED <<serverVars, authVars, arg>>

\* Application.put on the filtered chain
PutChain ==
    /\ ret.pc = "put"
    /\ LET cal == ret.calendars[1].path
           it == GetItem(ret.store[cal], NameFromPath(arg.request.path, cal))
       IN  ret' = IF PutAllowed(it, NoHeader)
                  THEN [ret EXCEPT
                           !.store[cal] = XmlPut(@, arg.request.path, cal,
                                                 arg.request.content),
                           !.mutations = Append(@, Mutation("put", cal)),
                           !.status = CREATED, !.pc = "done"]
                  ELSE [ret EXCEPT !.status = PRECONDITION_FAILED,
                                   !.pc = "done"]
    /\ UNCHANGED <<serverVars, authVars, arg>>

\* Application.delete on the filtered chain: the item is looked up in
\* calendars[0], the collection is deleted by the path of the request
DeleteChain ==
    /\ ret.pc = "delete"
    /\ LET path == arg.request.path
           cal == ret.calendars[1].path
           it == GetItem(ret.store[cal], NameFromPath(path, cal))
       IN  ret' =
             IF DeleteItemAllowed(it, NoHeader)
             THEN [ret EXCEPT
                      !.store[cal] = XmlDelete(@, path, cal),
                      !.mutations = Append(@, Mutation("remove", cal)),
                      !.status = NO_CONTENT, !.pc = "done"]
             ELSE IF /\ path \in ChainCals /\ ret.store[path].exists
                     /\ Lower(DepthOr(arg.request.depth, "infinity"))
                            = "infinity"
             THEN IF DeleteCollectionAllowed(ret.store[cal], NoHeader)
                  THEN [ret EXCEPT
                           !.store[path] = NoCalendar,
                           !.mutations =
                               Append(@, Mutation("delete_collection", path)),
                           !.status = NO_CONTENT, !.pc = "done"]
                  ELSE [ret EXCEPT !.status = PRECONDITION_FAILED,
                                   !.pc = "done"]
             ELSE [ret EXCEPT !.status = PRECONDITION_FAILED, !.pc = "done"]
    /\ UNCHANGED <<serverVars, authVars, arg>>

NextChain == CallChain \/ PutChain \/ DeleteChain

SpecChain == InitChain /\ [][NextChain]_vars

\* ------------------------------------------------------------------ claims
Status(w) == resp[w].status

Finished(w, method) == pc[w] = "done" /\ req[w].method = method

Made(w, call) == \E i \in 1..Len(trace[w]) : trace[w][i] = call

Mutations ==
    {"put", "remove", "delete_collection", "create_calendar", "replace",
     "props", "write"}

Mutated(w) == \E i \in 1..Len(trace[w]) : trace[w][i] \in Mutations

\* C1: PUT follows the precondition table: with the item as get_item returned
\* it, the item is written and the status is 201 exactly when (no item and no
\* If-Match header) or (an item and If-Match absent or equal to its ETag); in
\* every other case, an If-Match header of any value without an item included,
\* the status is 412.  (A request that raised is left aside.)
C1_PutTable ==
    \A w \in Workers :
        (Finished(w, "PUT") /\ trace[w] # <<>> /\ Status(w) # SERVER_ERROR) =>
            LET exists == item[w] # None
                present == req[w].ifm # NoHeader
                equal == exists /\ req[w].ifm = Etag(item[w])
            IN  IF (~exists /\ ~present) \/ (exists /\ (~present \/ equal))
                THEN Status(w) = CREATED /\ Made(w, "put")
                ELSE Status(w) = PRECONDITION_FAILED /\ ~Mutated(w)

\* C2: a PUT, DELETE or MKCALENDAR that answers 412 or 409 has made no
\* storage mutation call during that request.
C2_NoMutationOnFailure ==
    \A w \in Workers :
        (/\ pc[w] = "done"
         /\ req[w].method \in {"PUT", "DELETE", "MKCALENDAR"}
         /\ Status(w) \in {PRECONDITION_FAILED, CONFLICT}) => ~Mutated(w)

\* C2 witness: one PUT refused for a stale If-Match and one MKCALENDAR refused
\* on an existing resource, both answered.
C2_Witness ==
    \E w1, w2 \in Workers :
        /\ Finished(w1, "PUT") /\ Status(w1) = PRECONDITION_FAILED
        /\ item[w1] # None /\ req[w1].ifm \in ItemEtags
        /\ Finished(w2, "MKCALENDAR") /\ Status(w2) = CONFLICT

Applied(w) == Made(w, "put") \/ Made(w, "remove")

Conditional(w) ==
    /\ req[w].method \in {"PUT", "DELETE"}
    /\ req[w].path \in ItemPaths
    /\ req[w].ifm \in ItemEtags

\* C3 as stated: of two conditional writes on one item with the same If-Match,
\* each is applied only if its precondition still holds at its commit, so the
\* one that commits after the other changed the ETag is refused.
C3_HoldsAtCommit ==
    \A w1, w2 \in Workers :
        (/\ w1 # w2 /\ Conditional(w1) /\ Conditional(w2)
         /\ req[w1].path = req[w2].path /\ req[w1].ifm = req[w2].ifm
         /\ Applied(w1) /\ Applied(w2)) =>
            (pre[w1] = req[w1].ifm /\ pre[w2] = req[w2].ifm)

\* C3 amended: a conditional write is applied only if its precondition held
\* when the request tested it; a request that tests after the other's write
\* changed the ETag answers 412 and writes nothing.
C3_HeldAtCheck ==
    \A w \in Workers :
        (Conditional(w) /\ trace[w] # <<>>) =>
            /\ Applied(w) => (item[w] # None /\ Etag(item[w]) = req[w].ifm)
            /\ (pc[w] = "done" /\ (item[w] = None \/ Etag(item[w]) # req[w].ifm))
                 => (Status(w) = PRECONDITION_FAILED /\ ~Mutated(w))

\* C3 witness: two requests on one item with the same If-Match; one was
\* applied under a precondition that held at its commit, the other tested
\* later and was refused.
C3_Witness ==
    \E w1, w2 \in Workers :
        /\ w1 # w2 /\ pc[w1] = "done" /\ pc[w2] = "done"
        /\ Conditional(w1) /\ Conditional(w2)
        /\ req[w1].path = req[w2].path /\ req[w1].ifm = req[w2].ifm
        /\ Applied(w1) /\ pre[w1] = req[w1].ifm
        /\ Status(w1) \in {CREATED, NO_CONTENT}
        /\ Status(w2) = PRECONDITION_FAILED
        /\ item[w2] = post[w1]

C5_EtagOfStoredContent ==
    \A w \in Workers :
        (Finished(w, "PUT") /\ Status(w) = CREATED) =>
            resp[w].etag = Etag(req[w].content)

DepthIsInfinity(w) == req[w].depth \in {NoHeader, "infinity", "Infinity"}

\* C7: a DELETE of a calendar collection deletes it (204) only when Depth is
\* infinity (the default of a DELETE without Depth header) and If-Match is
\* absent or equal to the collection's ETag; with another If-Match, or with
\* Depth 0 or 1, it answers 412 and deletes nothing.
C7_DeleteCollection ==
    \A w \in Workers :
        (/\ Finished(w, "DELETE") /\ req[w].path \in CalPaths
         /\ trace[w] # <<>>) =>
            /\ Mutated(w) =>
                 /\ Status(w) = NO_CONTENT
                 /\ trace[w] = <<"get_item", "delete_collection">>
                 /\ DepthIsInfinity(w)
                 /\ (req[w].ifm = NoHeader \/ req[w].ifm = seen[w])
            /\ (\/ req[w].depth \in {"0", "1"}
                \/ (req[w].ifm # NoHeader /\ req[w].ifm # seen[w])) =>
                 (Status(w) = PRECONDITION_FAILED /\ ~Mutated(w))

\* C7 witness: one collection DELETE with a matching If-Match at Depth infinity
\* has deleted the collection, and one with Depth 1 was refused.
C7_Witness ==
    \E w1, w2 \in Workers :
        /\ Finished(w1, "DELETE") /\ req[w1].path \in CalPaths
        /\ req[w1].depth = "infinity" /\ req[w1].ifm = seen[w1]
        /\ Status(w1) = NO_CONTENT /\ ~store[req[w1].path].exists
        /\ Finished(w2, "DELETE") /\ req[w2].path \in CalPaths
        /\ req[w2].depth = "1" /\ Status(w2) = PRECONDITION_FAILED

\* C8: MKCALENDAR on an existing resource answers 409 with the
\* resource-must-be-null body and changes nothing; on a path that names no
\* resource it creates the collection and answers 201.
C8_Mkcalendar ==
    \A w \in Workers :
        (Finished(w, "MKCALENDAR") /\ trace[w] # <<>>) =>
            IF Made(w, "create_calendar")
            THEN Status(w) = CREATED
            ELSE /\ Status(w) = CONFLICT
                 /\ resp[w].body =
                      PreconditionFailedResponse("D", "resource-must-be-null")
                 /\ ~Mutated(w)

\* the resource at position i is passed on: a calendar iff the backend grants
\* its owner, an item iff the nearest calendar before it was granted
PassedAt(chain, granted, i) ==
    IF chain[i].kind = "calendar"
    THEN chain[i].owner \in granted
    ELSE \E j \in 1..(i - 1) :
            /\ chain[j].kind = "calendar"
            /\ chain[j].owner \in granted
            /\ \A k \in (j + 1)..(i - 1) : chain[k].kind # "calendar"

RECURSIVE Kept(_, _, _)
Kept(chain, granted, n) ==
    IF n = 0 THEN <<>>
    ELSE Kept(chain, granted, n - 1)
            \o (IF PassedAt(chain, granted, n) THEN <<chain[n]>> ELSE <<>>)

RECURSIVE CalendarOwners(_, _)
CalendarOwners(chain, n) ==
    IF n = 0 THEN <<>>
    ELSE CalendarOwners(chain, n - 1)
            \o (IF chain[n].kind = "calendar" THEN <<chain[n].owner>> ELSE <<>>)

\* C9: over any chain and any answers of the backend, a calendar is passed to
\* the handler iff the backend granted it, an item iff the nearest calendar
\* before it was granted (never when no calendar precedes it), and the backend
\* is asked exactly once per calendar, in chain order, and never for an item.
C9_RightsChaining ==
    authOut.done =>
        /\ authOut.result.calendars = Kept(chainIn, grants, Len(chainIn))
        /\ authOut.result.calls = CalendarOwners(chainIn, Len(chainIn))

\* C9 witness: an item before any calendar (dropped), a granted calendar, its
\* item (kept), then a refused calendar.
C9_Witness ==
    /\ authOut.done /\ Len(chainIn) = 4
    /\ chainIn[1].kind = "item"
    /\ chainIn[2].kind = "calendar" /\ chainIn[2].owner \in grants
    /\ chainIn[3].kind = "item"
    /\ chainIn[4].kind = "calendar" /\ chainIn[4].owner \notin grants
    /\ authOut.result.calendars = <<chainIn[2], chainIn[3]>>
    /\ Len(authOut.result.calls) = 2

\* the owners the backend grants to the credentials of w's request
GrantedTo(w) ==
    {o \in Owners : HasRight(o, IF req[w].auth = NoHeader THEN None
                                ELSE req[w].auth)}

\* C10: with a rights backend, a non-empty resolved chain and no resource
\* passed on by the rights check, the answer is 401 with the Basic challenge
\* and no body, and the handler is not run: it makes no storage call.  (The
\* rights check is reached by every request whose method token names an
\* attribute of the application; the lookup of any other token raises first.)
C10_Unauthorized ==
    \A w \in Workers :
        /\ (/\ pc[w] \notin {"idle", "call"} /\ aclOn /\ resolved[w] # <<>>
            /\ Handler(req[w].method) # None
            /\ Kept(resolved[w], GrantedTo(w), Len(resolved[w])) = <<>>) =>
               /\ pc[w] = "done"
               /\ resp[w] = [status |-> UNAUTHORIZED, etag |-> None,
                             challenge |-> Challenge, body |-> NoBody]
               /\ trace[w] = <<>>
               /\ cals[w] = <<>>
        /\ (pc[w] = "done" /\ Status(w) = UNAUTHORIZED) =>
               (trace[w] = <<>> /\ resp[w].challenge = Challenge)

\* C10 witness: an anonymous PUT on an item of an existing calendar got 401.
C10_Witness ==
    \E w \in Workers :
        /\ Finished(w, "PUT") /\ aclOn /\ resolved[w] # <<>>
        /\ req[w].auth = NoHeader
        /\ Status(w) = UNAUTHORIZED /\ trace[w] = <<>>

\* the client of w's request has no right on the collection its path addresses
WithoutRights(w) == Owner(CalendarOf(req[w].path)) \notin GrantedTo(w)

\* C11: with a rights backend, two answered requests of a client without
\* rights that are equal in everything but the existence of the addressed
\* resource (one resolved to a chain, the other to nothing) got the same
\* response: 401, the Basic challenge, no body.
C11_NoExistenceLeak ==
    \A w1, w2 \in Workers :
        (/\ w1 # w2 /\ aclOn
         /\ pc[w1] = "done" /\ pc[w2] = "done"
         /\ req[w1] = req[w2]
         /\ WithoutRights(w1)
         /\ resolved[w1] # <<>> /\ resolved[w2] = <<>>) =>
            (resp[w1] = Unauthorized /\ resp[w2] = Unauthorized)

\* the method tokens the dispatch is meant to map
HandlerSet ==
    {"GET", "HEAD", "DELETE", "MKCALENDAR", "MKCOL", "OPTIONS", "PROPFIND",
     "PROPPATCH", "PUT", "REPORT"}

\* C12: a request that the rights check did not refuse and whose method token
\* is outside the handler set (FOO, or DECODE which names another attribute)
\* is answered 501 and makes no storage call; so is every MKCOL.
C12_Dispatch ==
    \A w \in Workers :
        (/\ pc[w] = "done" /\ resp[w] # Unauthorized
         /\ (req[w].method \notin HandlerSet \/ req[w].method = "MKCOL")) =>
            (Status(w) = NOT_IMPLEMENTED /\ trace[w] = <<>>)

HasDotDot(path) ==
    LET comps == Split(path, 1, <<>>)
    IN  \E i \in 1..Len(comps) : comps[i] = DotDot

\* C13: for every URI p, sanitize(p) has no '..' segment and
\* sanitize(sanitize(p)) = sanitize(p).
C13_SanitizeIdempotentSafe ==
    /\ Len(ret) >= 1 => ~HasDotDot(ret[1])
    /\ Len(ret) = 2 => ret[2] = ret[1]

\* the charsets of the claim's order that decode the text without error
RECURSIVE Successful(_, _, _)
Successful(text, charsets, i) ==
    IF i > Len(charsets) THEN <<>>
    ELSE (IF charsets[i] \in KnownCharsets /\ Decodes(text, charsets[i])
          THEN <<charsets[i]>> ELSE <<>>)
         \o Successful(text, charsets, i + 1)

\* C14: decode returns the text decoded with the first charset of (content-type
\* charset, configured default, UTF-8, Latin-1) that decodes it without error;
\* a charset that fails, an unknown name in the content-type header included,
\* is skipped; the call fails only if no charset succeeds.
C14_FirstCharsetWins ==
    ret # Raised("pending") =>
        LET good == Successful(arg.text,
                        CharsetsToTry(arg.content_type, arg.encoding), 1)
        IN  IF good = <<>> THEN ret.raised # None
            ELSE ret = Decoded(arg.text, good[1])

\* a tag counts as resolved for a resource when one of the computed
\* properties applies to it or the collection's property store holds it
Resolved(it, tag, user) ==
    \/ tag \in {"D:getetag", "D:principal-URL", "D:principal-collection-set",
                "C:calendar-user-address-set", "C:calendar-home-set",
                "C:supported-calendar-component-set",
                "D:current-user-privilege-set", "D:supported-report-set"}
    \/ tag = "D:current-user-principal" /\ user # None
    \/ tag \in {"D:getcontenttype", "D:resourcetype"}
    \/ /\ it.kind = "calendar"
       /\ \/ tag \in {"CS:getctag", "C:calendar-timezone"}
          \/ tag = "D:owner" /\ it.owner_url # None
          \/ tag \in PropNames /\ it.props[tag] # None

TagsOf(elements) == [i \in 1..Len(elements) |-> elements[i].tag]

RECURSIVE TagsWhere(_, _, _, _, _)
TagsWhere(it, tags, user, resolved_, i) ==
    IF i > Len(tags) THEN <<>>
    ELSE (IF Resolved(it, tags[i], user) = resolved_ THEN <<tags[i]>> ELSE <<>>)
            \o TagsWhere(it, tags, user, resolved_, i + 1)

Answered == ret.raised = None

\* C15: a PROPFIND answer has one response per resource of the chain, in chain
\* order; in each, the first propstat group has status 200 and holds exactly
\* the requested tags that were resolved, and a second group, of status 404,
\* is there iff some requested tag was unresolved and holds exactly those:
\* every requested tag is in exactly one group.
C15_PropfindPartition ==
    Answered =>
        /\ Len(ret.multistatus) = Len(arg.calendars)
        /\ \A i \in 1..Len(ret.multistatus) :
              LET r == ret.multistatus[i]
                  it == arg.calendars[i]
                  tags == arg.xml_request.tags
                  found == TagsWhere(it, tags, arg.user, TRUE, 1)
                  missing == TagsWhere(it, tags, arg.user, FALSE, 1)
              IN  /\ r.href = (IF it.kind = "calendar" THEN <<it.url>>
                               ELSE <<arg.path, it.name>>)
                  /\ r.propstat[1].status = 200
                  /\ TagsOf(r.propstat[1].prop) = found
                  /\ Len(r.propstat) = (IF missing = <<>> THEN 1 ELSE 2)
                  /\ Len(r.propstat) = 2 =>
                        /\ r.propstat[2].status = 404
                        /\ TagsOf(r.propstat[2].prop) = missing

\* C15 witness: a collection and an item answered for a tag that only the
\* collection resolves: one response without 404 group, one with it.
C15_Witness ==
    /\ Answered /\ Len(arg.calendars) = 2
    /\ arg.calendars[1].kind = "calendar" /\ arg.calendars[2].kind = "item"
    /\ arg.xml_request.tags = <<"D:getetag", "D:owner">>
    /\ Len(ret.multistatus) = 2
    /\ Len(ret.multistatus[1].propstat) = 1
    /\ Len(ret.multistatus[2].propstat) = 2
    /\ TagsOf(ret.multistatus[2].propstat[2].prop) = <<"D:owner">>

\* a PROPFIND at Depth 0 on a collection for getetag and resourcetype: the
\* chain is the collection alone
EtagAndType ==
    /\ Answered
    /\ Len(arg.calendars) = 1 /\ arg.calendars[1].kind = "calendar"
    /\ arg.xml_request.tags \in {<<"D:getetag", "D:resourcetype">>,
                                 <<"D:resourcetype", "D:getetag">>}

\* the markers inside the resourcetype element of the first response
Markers ==
    LET prop == ret.multistatus[1].propstat[1].prop
        e == CHOOSE x \in {prop[i] : i \in 1..Len(prop)} :
                 x.tag = "D:resourcetype"
    IN  {e.children[i].tag : i \in 1..Len(e.children)}

BothIn200 ==
    /\ Len(ret.multistatus) = 1
    /\ Len(ret.multistatus[1].propstat) = 1
    /\ ret.multistatus[1].propstat[1].status = 200
    /\ {ret.multistatus[1].propstat[1].prop[i].tag : i \in 1..2}
          = {"D:getetag", "D:resourcetype"}
    /\ Len(ret.multistatus[1].propstat[1].prop) = 2

\* C16 as stated: PROPFIND at Depth 0 on any collection for getetag and
\* resourcetype gives one response with both in the 200 group, no 404 group,
\* and a resourcetype with a calendar marker and a collection marker.
C16_CalendarAndCollection ==
    EtagAndType =>
        /\ BothIn200
        /\ {"C:calendar", "D:collection"} \subseteq Markers

\* C16 amended: one response with both in the 200 group and no 404 group; the
\* resourcetype has a collection marker and, for a collection that is not a
\* principal, a calendar marker; for a principal it has a principal marker
\* and no calendar marker.
C16_CollectionAndKind ==
    EtagAndType =>
        /\ BothIn200
        /\ Markers = (IF arg.calendars[1].is_principal
                      THEN {"D:principal", "D:collection"}
                      ELSE {"C:calendar", "D:collection"})

\* C16 witness: the answer for a collection that is not a principal.
C16_Witness ==
    /\ EtagAndType /\ ~arg.calendars[1].is_principal
    /\ BothIn200
    /\ Markers = {"C:calendar", "D:collection"}

InList(name, names) == \E i \in 1..Len(names) : names[i] = name

\* a property is in the store when its removal comes up: it was stored before
\* the request, or the request set it (the timezone is set elsewhere)
PresentAtRemoval(name) ==
    \/ arg.calendar.props[name] # None
    \/ name # "C:calendar-timezone" /\ InList(name, arg.xml_request.set)

\* C17: a PROPPATCH reports 200 for every set entry and, for every remove
\* entry, 200 if the property was in the store at its removal (and it is
\* deleted) and 412 if it was not; each entry has its status and its effect
\* whatever the status of the others.
C17_ProppatchStatuses ==
    ret.raised # "pending" =>
        LET sets == arg.xml_request.set
            removes == arg.xml_request.remove
        IN  /\ ret.raised = None
            /\ Len(ret.answer) = Len(sets) + Len(removes)
            /\ \A i \in 1..Len(sets) :
                  ret.answer[i] = [tag |-> sets[i], status |-> 200]
            /\ \A i \in 1..Len(removes) :
                  ret.answer[Len(sets) + i] =
                      [tag |-> removes[i],
                       status |-> IF PresentAtRemoval(removes[i])
                                  THEN 200 ELSE 412]
            /\ \A name \in PatchNames :
                  ret.calendar.props[name] =
                      IF InList(name, removes) THEN None
                      ELSE IF /\ InList(name, sets)
                              /\ name # "C:calendar-timezone"
                      THEN "n1" ELSE arg.calendar.props[name]
            /\ ret.calendar.timezone =
                  IF InList("C:calendar-timezone", sets) THEN "n1" ELSE "TZ0"

\* C18: the changes of one MKCALENDAR call show all or none.  While the call
\* has stored its timezone but not yet its properties, no GET of another
\* request has returned the collection with that timezone; and a call that
\* failed has left no change behind.
C18_AllOrNothing ==
    \A w, r \in Workers :
        /\ (/\ w # r
            /\ req[w].method = "MKCALENDAR" /\ pc[w] = "mk_props"
            /\ req[w].mk.tz # None
            /\ Finished(r, "GET") /\ req[r].path = req[w].path
            /\ Status(r) = OK) =>
               resp[r].body.tz # req[w].mk.tz
        /\ (Finished(w, "MKCALENDAR") /\ Status(w) = SERVER_ERROR) =>
               ~Mutated(w)

\* the items a response was built for
Reported == {ret.multistatus[k].item : k \in 1..Len(ret.multistatus)}

\* the items of the collection a calendar-query on the request path is about
Candidates ==
    LET name == NameFromPath(arg.path, ReportPath)
    IN  {it \in {arg.calendar[k] : k \in 1..Len(arg.calendar)} :
            name = None \/ it.name = name}

\* C19: a REPORT (calendar-query) without expand child and with a time-range
\* filter answers with exactly the items whose start lies inside the open
\* interval of the filter: (no start bound or start < item start) and (no end
\* bound or end > item start).
C19_TimeRangeFilter ==
    (/\ ret.done /\ arg.xml_request.root = "C:calendar-query"
     /\ arg.xml_request.modifiers = <<>>
     /\ (arg.xml_request.start # NoTime \/ arg.xml_request.end # NoTime)) =>
        Reported = {it \in Candidates :
                       InTimeRange(it, arg.xml_request.start,
                                   arg.xml_request.end)}

\* C20: both flags are false without sub-flag element; an expand or a
\* limit-recurrence-set element under a requested property sets both.
C20_FlagsTogether ==
    ret.done =>
        /\ ret.flags.expand = (arg.xml_request.modifiers # <<>>)
        /\ ret.flags.limit_recurrence_set = (arg.xml_request.modifiers # <<>>)

\* the days on which the rule of an item has an occurrence, as far as Times go
OccurrencesOfRule(it) ==
    {t \in it.dtstart..MaxTime :
        \/ it.rrule = "FREQ=DAILY"
        \/ it.rrule = "FREQ=DAILY;COUNT=2" /\ t < it.dtstart + 2}

\* the responses built for the item called name, in the order of the answer
ResponsesOf(name) ==
    SelectSeq(ret.multistatus, LAMBDA r : r.item.name = name)

WithExpand ==
    \E i \in 1..Len(arg.xml_request.modifiers) :
        arg.xml_request.modifiers[i] = "C:expand"

\* C21: a REPORT (calendar-query) with expand, an end bound and no start bound
\* answers, for an item whose rule has k >= 1 occurrences before the end bound,
\* with exactly k responses in ascending order of start: the first is the
\* original occurrence, the j-th (j >= 2) starts at the j-th occurrence, has
\* the original start as RECURRENCE-ID and the suffix (#j) in its SUMMARY.
C21_ExpandOccurrences ==
    (/\ ret.done /\ arg.xml_request.root = "C:calendar-query"
     /\ WithExpand
     /\ arg.xml_request.end # NoTime /\ arg.xml_request.start = NoTime) =>
        \A it \in Candidates :
            LET k == Cardinality({t \in OccurrencesOfRule(it) :
                                     t < arg.xml_request.end})
                rs == ResponsesOf(it.name)
            IN  (it.rrule # None /\ k >= 1) =>
                    /\ Len(rs) = k
                    /\ \A j \in 1..k :
                          /\ rs[j].item.dtstart = it.dtstart + j - 1
                          /\ rs[j].item.recurrence_id =
                                 (IF j = 1 THEN NoTime ELSE it.dtstart)
                          /\ rs[j].item.number = (IF j = 1 THEN 0 ELSE j)

\* an item with a daily rule was expanded into three occurrences
C21_Witness ==
    /\ ret.done /\ arg.xml_request.root = "C:calendar-query"
    /\ WithExpand
    /\ arg.xml_request.start = NoTime
    /\ \E it \in Candidates :
          /\ it.rrule = "FREQ=DAILY"
          /\ arg.xml_request.end = it.dtstart + 3
          /\ Len(ResponsesOf(it.name)) = 3
          /\ ResponsesOf(it.name)[3].item.number = 3

\* the place of the item called name in the collection
Position(name) ==
    CHOOSE k \in 1..Len(arg.calendar) : arg.calendar[k].name = name

\* C22: the responses of one REPORT are in ascending order of item start over
\* the whole answer, whatever the number of hrefs; items that start together
\* are in the order of the collection.
C22_GlobalOrder ==
    ret.done =>
        \A i, j \in 1..Len(ret.multistatus) :
            i < j =>
                /\ ret.multistatus[i].item.dtstart <=
                       ret.multistatus[j].item.dtstart
                /\ (ret.multistatus[i].item.dtstart =
                        ret.multistatus[j].item.dtstart) =>
                       Position(ret.multistatus[i].item.name) <=
                           Position(ret.multistatus[j].item.name)

\* C23: in an expansion with a start bound the n of the suffix (#n) of a
\* response is the index of its occurrence in the sequence of the rule plus one
\* (the original start has index 0), however many occurrences the start bound
\* skipped, and every response that starts later than the original item has
\* the RECURRENCE-ID of the original start.
C23_OccurrenceIndex ==
    (/\ ret.done /\ arg.xml_request.root = "C:calendar-query"
     /\ WithExpand
     /\ arg.xml_request.end # NoTime /\ arg.xml_request.start # NoTime) =>
        \A it \in Candidates :
            it.rrule # None =>
                \A k \in 1..Len(ResponsesOf(it.name)) :
                    LET r == ResponsesOf(it.name)[k].item
                    IN  /\ r.number # 0 =>
                              r.number = (r.dtstart - it.dtstart) + 1
                        /\ r.dtstart > it.dtstart =>
                              r.recurrence_id = it.dtstart

\* the items that the filter and expansion step of a calendar-query with
\* expand leaves: new_items
Surviving ==
    NewItems(SelectSeq(arg.calendar, LAMBDA it : it \in Candidates), 1,
             arg.xml_request.start, arg.xml_request.end,
             ret.flags.limit_recurrence_set)

\* C24: a REPORT (calendar-query) with expand builds one response for each item
\* that the filter and expansion step left and no other: if the step left
\* nothing, the multistatus has no response.
C24_OneResponsePerSurvivor ==
    (ret.done /\ arg.xml_request.root = "C:calendar-query" /\ WithExpand) =>
        /\ Len(ret.multistatus) = Len(Surviving)
        /\ \A k \in 1..Len(ret.multistatus) :
              \E n \in 1..Len(Surviving) :
                  ret.multistatus[k].item = Surviving[n]

\* the properties named in some element of the body with that action
NamedIn(action) ==
    {name \in PatchNames :
        \E i \in 1..Len(arg.body) :
            arg.body[i].action = action /\ InList(name, arg.body[i].props)}

\* the places of the answer that report the status for the property
StatusesOf(name, status) ==
    {i \in 1..Len(ret.answer) :
        ret.answer[i] = [tag |-> name, status |-> status]}

\* C25: whatever the order of the set and remove elements in the body of a
\* PROPPATCH, a property that the request both sets and removes is not in the
\* store after the request and has status 200 twice in the answer, once for
\* the set and once for the remove, whether it was stored before or not.
C25_SetThenRemove ==
    ret.raised # "pending" =>
        \A name \in NamedIn("set") \cap NamedIn("remove") :
            /\ ret.raised = None
            /\ ret.calendar.props[name] = None
            /\ Cardinality(StatusesOf(name, 200)) = 2
            /\ StatusesOf(name, 412) = {}

\* the collections for which the backend answered true in this request
Authorized ==
    {arg.chain[i].path :
        i \in {n \in 1..Len(arg.chain) :
                  /\ arg.chain[n].kind = "calendar"
                  /\ arg.chain[n].owner \in arg.allowed}}

C27_ExpansionTerminates ==
    /\ [](ret.pc = "occurrences" =>
            /\ arg.end # NoTime
            /\ ret.n > 0 =>
                  arg.calendar[ret.k].dtstart + ret.n - 1 < arg.end)
    /\ [](\A m \in 1..Len(ret.new_items) :
              ret.new_items[m].recurrence_id # NoTime =>
                  ret.new_items[m].dtstart < arg.end)
    /\ <>(ret.pc = "done")

\* the loop ended after it went through a rule without end and emitted two
\* occurrences of it or more
C27_Witness ==
    /\ ret.pc = "done"
    /\ \E k \in 1..Len(arg.calendar) :
          /\ arg.calendar[k].rrule = "FREQ=DAILY"
          /\ Len(SelectSeq(ret.new_items,
                     LAMBDA it : it.name = arg.calendar[k].name)) >= 2

====
